---- MODULE Spec2Model ----
(***************************************************************************)
(* State-machine model of the MonadDemo controller (src/public/app.js).   *)
(*                                                                         *)
(* Strings that the code inspects (the amount and recipient inputs, the   *)
(* chain id literal) are sequences of one-character strings, so that the  *)
(* numeric coercion of the comparisons, ethers' parseEther and isAddress  *)
(* and formatAddress are computed on their characters.                     *)
(***************************************************************************)
EXTENDS Integers, Sequences, FiniteSets, TLC

\* null / undefined; every value that may be null is a tuple
NULL == << >>

\* ------------------------------------------------------------------------
\* Bounds of the model
\* ------------------------------------------------------------------------
\* number of async operations (click handlers, the silent reconnection)
\* that may be in flight or finished-and-remembered at the same time
MaxTasks == 2
\* number of clicks of the user within one page lifetime (one more in the
\* specification of the concurrent operations)
MaxClicks == 1
\* number of clicks in the specification of the long transaction log
MaxLog == 11

\* ------------------------------------------------------------------------
\* Program constants
\* ------------------------------------------------------------------------
\* connectWallet: network.chainId !== 41454
EXPECTED_CHAIN_ID == 41454
\* updateTransactionHistory: this.txHistory.slice(0, 10)
DISPLAY_LIMIT == 10
\* mintTokens: amount > 1000
MAX_MINT == 1000
\* parseEther = parseUnits(value, 18)
ETHER_DECIMALS == 18
\* addNetwork: chainId: '0xA1F6'
ADD_CHAIN_ID == <<"0", "x", "A", "1", "F", "6">>
ADD_RPC_URL == "https://testnet1.monad.xyz"
ADD_EXPLORER_URL == "https://explorer-testnet.monad.xyz"

\* ------------------------------------------------------------------------
\* Character-level helpers
\* ------------------------------------------------------------------------
Digits == {"0", "1", "2", "3", "4", "5", "6", "7", "8", "9"}
LowerHex == {"a", "b", "c", "d", "e", "f"}
UpperHex == {"A", "B", "C", "D", "E", "F"}
HexChars == Digits \cup LowerHex \cup UpperHex

DigitVal(c) ==
    CASE c = "0" -> 0 [] c = "1" -> 1 [] c = "2" -> 2 [] c = "3" -> 3
      [] c = "4" -> 4 [] c = "5" -> 5 [] c = "6" -> 6 [] c = "7" -> 7
      [] c = "8" -> 8 [] c = "9" -> 9
      [] c \in {"a", "A"} -> 10 [] c \in {"b", "B"} -> 11
      [] c \in {"c", "C"} -> 12 [] c \in {"d", "D"} -> 13
      [] c \in {"e", "E"} -> 14 [] c \in {"f", "F"} -> 15

\* String.prototype.substring(from, to) with 0-based from, exclusive to
Substring(s, from, to) ==
    LET lo == IF from < 0 THEN 0 ELSE IF from > Len(s) THEN Len(s) ELSE from
        hi == IF to < 0 THEN 0 ELSE IF to > Len(s) THEN Len(s) ELSE to
        a == IF lo <= hi THEN lo ELSE hi
        b == IF lo <= hi THEN hi ELSE lo
    IN  SubSeq(s, a + 1, b)

\* number of leading characters of s, from 1-based position i, that are in set
RECURSIVE RunLen(_, _, _)
RunLen(s, i, set) ==
    IF i > Len(s) \/ s[i] \notin set THEN 0 ELSE 1 + RunLen(s, i + 1, set)

\* value of a string of digits in the given radix
RECURSIVE RadixVal(_, _)
RadixVal(s, radix) ==
    IF s = << >> THEN 0
    ELSE RadixVal(SubSeq(s, 1, Len(s) - 1), radix) * radix + DigitVal(s[Len(s)])

RECURSIVE Pow10(_)
Pow10(n) == IF n <= 0 THEN 1 ELSE 10 * Pow10(n - 1)

RECURSIVE TrimLeft(_)
TrimLeft(s) == IF s # << >> /\ s[1] = " " THEN TrimLeft(Tail(s)) ELSE s

RECURSIVE TrimRight(_)
TrimRight(s) ==
    IF s # << >> /\ s[Len(s)] = " " THEN TrimRight(SubSeq(s, 1, Len(s) - 1)) ELSE s

RECURSIVE TrimTrailingZeros(_)
TrimTrailingZeros(s) ==
    IF s # << >> /\ s[Len(s)] = "0"
    THEN TrimTrailingZeros(SubSeq(s, 1, Len(s) - 1)) ELSE s

\* ------------------------------------------------------------------------
\* JavaScript's string-to-number coercion, applied by `amount <= 0` and
\* `amount > 1000` to the string read from the input field.  The result is
\* NaN, or sign * mant * 10^exp.
\* ------------------------------------------------------------------------
NaN == [kind |-> "nan", sign |-> 1, mant |-> 0, exp |-> 0]
Num(sg, m, e) == [kind |-> "num", sign |-> sg, mant |-> m, exp |-> e]

ToNumber(str) ==
    LET s == TrimRight(TrimLeft(str))
        n == Len(s)
        hasSign == n >= 1 /\ s[1] \in {"+", "-"}
        sg == IF hasSign /\ s[1] = "-" THEN -1 ELSE 1
        i == IF hasSign THEN 2 ELSE 1
        nInt == RunLen(s, i, Digits)
        j == i + nInt
        hasDot == j <= n /\ s[j] = "."
        nFrac == IF hasDot THEN RunLen(s, j + 1, Digits) ELSE 0
        k == IF hasDot THEN j + 1 + nFrac ELSE j
        hasExp == k <= n /\ s[k] \in {"e", "E"}
        hasESign == hasExp /\ k + 1 <= n /\ s[k + 1] \in {"+", "-"}
        esg == IF hasESign /\ s[k + 1] = "-" THEN -1 ELSE 1
        e0 == IF hasESign THEN k + 2 ELSE k + 1
        nExp == IF hasExp THEN RunLen(s, e0, Digits) ELSE 0
        end == IF hasExp THEN e0 + nExp ELSE k
        mantStr == SubSeq(s, i, j - 1) \o (IF hasDot THEN SubSeq(s, j + 1, k - 1) ELSE << >>)
        expVal == IF hasExp THEN esg * RadixVal(SubSeq(s, e0, e0 + nExp - 1), 10) ELSE 0
        isHex == n >= 3 /\ s[1] = "0" /\ s[2] \in {"x", "X"}
                 /\ RunLen(s, 3, HexChars) = n - 2
    IN  IF n = 0 THEN Num(1, 0, 0)
        ELSE IF isHex THEN Num(1, RadixVal(SubSeq(s, 3, n), 16), 0)
        ELSE IF nInt + nFrac >= 1 /\ (hasExp => nExp >= 1) /\ end = n + 1
             THEN Num(sg, RadixVal(mantStr, 10), expVal - nFrac)
        ELSE NaN

\* v <= 0 (false for NaN)
LeqZero(v) == v.kind = "num" /\ (v.mant = 0 \/ v.sign = -1)

\* v > limit, for an integer limit >= 0 (false for NaN)
GreaterThan(v, limit) ==
    /\ v.kind = "num"
    /\ v.sign = 1
    /\ v.mant > 0
    /\ IF v.exp >= 0
       THEN v.exp > 4 \/ v.mant * Pow10(v.exp) > limit
       ELSE LET d == Pow10(-v.exp)
            IN  v.mant \div d > limit \/ (v.mant \div d = limit /\ v.mant % d > 0)

\* `!amount`: the empty string is the only falsy string
Falsy(str) == str = << >>

\* ------------------------------------------------------------------------
\* ethers.utils.parseEther(value) = parseFixed(value, 18).  The result is
\* [ok |-> FALSE, message] when it throws, else the whole and fractional
\* digits of the value.
\* ------------------------------------------------------------------------
Thrown(m) == [ok |-> FALSE, message |-> m, negative |-> FALSE, whole |-> << >>, fraction |-> << >>]

parseEther(value) ==
    LET negative == Len(value) >= 1 /\ value[1] = "-"
        v == IF negative THEN Tail(value) ELSE value
        dots == {p \in 1..Len(v) : v[p] = "."}
        dot == IF dots = {} THEN Len(v) + 1 ELSE CHOOSE p \in dots : \A q \in dots : p <= q
        whole0 == SubSeq(v, 1, dot - 1)
        frac0 == SubSeq(v, dot + 1, Len(v))
        whole == IF whole0 = << >> THEN <<"0">> ELSE whole0
        fraction == TrimTrailingZeros(IF frac0 = << >> THEN <<"0">> ELSE frac0)
    IN  IF value = << >> \/ RunLen(v, 1, Digits \cup {"."}) # Len(v) \/ v = << >>
        THEN Thrown("invalid decimal value")
        ELSE IF v = <<".">> THEN Thrown("missing value")
        ELSE IF Cardinality(dots) > 1 THEN Thrown("too many decimal points")
        ELSE IF Len(fraction) > ETHER_DECIMALS
             THEN Thrown("fractional component exceeds decimals")
        ELSE [ok |-> TRUE, message |-> "", negative |-> negative,
              whole |-> whole, fraction |-> fraction]

\* ------------------------------------------------------------------------
\* ethers.utils.isAddress(to) for inputs without mixed-case hex digits (a
\* mixed-case address is checked against its keccak checksum, which is not
\* modelled; the inputs below have none): 40 hex digits, "0x" optional.
\* ------------------------------------------------------------------------
MixedCase(s) == (\E p \in 1..Len(s) : s[p] \in LowerHex) /\ (\E p \in 1..Len(s) : s[p] \in UpperHex)

isAddress(to) ==
    LET body == IF Len(to) >= 2 /\ to[1] = "0" /\ to[2] = "x" THEN SubSeq(to, 3, Len(to)) ELSE to
    IN  Len(body) = 40 /\ RunLen(body, 1, HexChars) = 40 /\ ~MixedCase(body)

\* formatAddress(address)
formatAddress(address) ==
    Substring(address, 0, 6) \o <<".", ".", ".">> \o Substring(address, Len(address) - 4, Len(address))

\* the number a wallet reads from a "0x..." chain id
HexToNat(s) == RadixVal(SubSeq(s, 3, Len(s)), 16)

\* ------------------------------------------------------------------------
\* Inputs of the environment
\* ------------------------------------------------------------------------
\* what the user may leave in #mintAmount before a click on #mintBtn: a
\* value <= 0, a value in range, one above the ceiling, and a number in
\* exponent notation
AmountInputs ==
    { <<"0">>, <<"5">>, <<"1", "0", "0", "1">>, <<"1", "e", "2">> }

\* a 40-digit lower-case hex address with the "0x" prefix, and a short one
GOOD_ADDRESS == <<"0", "x">> \o [p \in 1..40 |-> IF p % 2 = 0 THEN "a" ELSE "1"]
BAD_ADDRESS == <<"0", "x", "1", "2", "3">>
\* what the user may leave in #transferTo and #transferAmount before a
\* click on #transferBtn
TransferInputs ==
    { [to |-> BAD_ADDRESS, amount |-> <<"5">>],
      [to |-> GOOD_ADDRESS, amount |-> <<"0">>],
      [to |-> GOOD_ADDRESS, amount |-> <<"1", "0", "0", "1">>],
      [to |-> GOOD_ADDRESS, amount |-> <<"1", "e", "2">>] }

\* network ids the wallet may be on: the expected one and mainnet
ChainIds == {EXPECTED_CHAIN_ID, 1}

\* the address /api/contract-info may carry (or none) and the account address
CONTRACT_ADDRESS == <<"0xC0">>
CONTRACT_ABI == <<"abi">>
PROVIDER == <<"Web3Provider">>
SIGNER == <<"Signer">>
CONTRACT == <<"Contract">>
USER_ADDRESS == <<"0", "x">> \o [p \in 1..40 |-> IF p % 2 = 0 THEN "b" ELSE "2"]
\* error.message of a rejected capability call
CAPABILITY_ERROR == "capability error"

Slots == {"connectionStatus", "mintStatus", "transferStatus"}
Buttons == {"connectBtn", "mintBtn", "transferBtn"}
Tasks == 1..MaxTasks

\* ------------------------------------------------------------------------
\* State
\* ------------------------------------------------------------------------
VARIABLES
    ethereum,        \* window.ethereum is defined
    accounts,        \* the wallet has an account authorized for this page
    chainId,         \* the wallet's active network id
    reloaded,        \* the page has been reloaded (navigation type "reload")
    provider, signer, contract, contractAddress, contractABI, userAddress,
    txHistory,       \* this.txHistory, most recent first
    init,            \* position of init(): [pc, abiOk]
    listeners,       \* setupEventListeners has run
    task,            \* the async operations in flight or finished
    buttons,         \* disabled flag of #connectBtn, #mintBtn, #transferBtn
    status,          \* the three status slots
    timers,          \* pending auto-hide timeouts per status slot
    inputs,          \* value of #mintAmount, #transferTo, #transferAmount
    display,         \* text slots written by updateUI / updateTokenInfo / updateContractInfo
    txHistoryHTML,   \* the records rendered into #txHistory
    alerts,          \* the last alert() shown
    requests,        \* wallet_addEthereumChain requests the wallet has received
    hashes,          \* number of submissions the network accepted (the next hash)
    clicks           \* number of clicks on the four buttons so far

session == <<provider, signer, contract, contractAddress, contractABI, userAddress>>
env == <<ethereum, accounts, chainId, reloaded>>
dom == <<buttons, status, timers, inputs, display, txHistoryHTML, alerts>>
vars == <<env, session, txHistory, init, listeners, task, dom, requests, hashes, clicks>>

\* a free slot of the task table
NoTask ==
    [kind |-> "none", pc |-> "idle", request |-> FALSE, amount |-> << >>, to |-> << >>,
     hash |-> 0, calls |-> 0, submits |-> 0, logged |-> FALSE, refreshed |-> FALSE,
     outcome |-> ""]

\* what a status text interpolates: error.message, tx.hash or the amount
NoArg == [message |-> "", hash |-> 0, amount |-> << >>]
ErrorArg(m) == [NoArg EXCEPT !.message = m]
HashArg(h) == [NoArg EXCEPT !.hash = h]
AmountArg(a) == [NoArg EXCEPT !.amount = a]

NoStatus == [text |-> "", arg |-> NoArg, type |-> "", hidden |-> TRUE]

\* The state of a freshly loaded page: constructor(), then init() up to its
\* first await (the two fetches of loadContractInfo).  The buttons of the
\* interactions start disabled (updateUI is what enables them).
FreshInit == [pc |-> "fetchInfo", abiOk |-> FALSE]
FreshTasks == [t \in Tasks |-> NoTask]
FreshButtons == [b \in Buttons |-> b # "connectBtn"]
FreshStatus == [s \in Slots |-> NoStatus]
FreshTimers == [s \in Slots |-> 0]
FreshInputs == [mintAmount |-> << >>, transferTo |-> << >>, transferAmount |-> << >>]
FreshDisplay ==
    [accountAddress |-> << >>, accountBalance |-> "", accountInfo |-> FALSE,
     userBalance |-> "", whitelistStatus |-> "", tokenInfo |-> ""]

FreshPage ==
    /\ provider = NULL /\ signer = NULL /\ contract = NULL
    /\ contractAddress = NULL /\ contractABI = NULL /\ userAddress = NULL
    /\ txHistory = << >>
    /\ init = FreshInit
    /\ listeners = FALSE
    /\ task = FreshTasks
    /\ buttons = FreshButtons
    /\ status = FreshStatus
    /\ timers = FreshTimers
    /\ inputs = FreshInputs
    /\ display = FreshDisplay
    /\ txHistoryHTML = << >>
    /\ alerts = ""
    /\ requests = {}
    /\ hashes = 0
    /\ clicks = 0

Init ==
    /\ ethereum \in BOOLEAN
    /\ accounts \in (IF ethereum THEN BOOLEAN ELSE {FALSE})
    /\ chainId \in ChainIds
    /\ reloaded = FALSE
    /\ FreshPage

\* ------------------------------------------------------------------------
\* Helpers of the actions.  A handler's continuation works on a bundle
\* [r, status, timers, inputs]: its own task record and the presentation
\* state it may write; Commit stores the bundle at the end of the step.
\* ------------------------------------------------------------------------
Bundle(r) == [r |-> r, status |-> status, timers |-> timers, inputs |-> inputs]

Commit(t, b) ==
    /\ task' = [task EXCEPT ![t] = b.r]
    /\ status' = b.status
    /\ timers' = b.timers
    /\ inputs' = b.inputs

Message(text, arg, type) == [text |-> text, arg |-> arg, type |-> type, hidden |-> FALSE]

\* showStatus(elementId, message, type): the slot shows the message; a
\* success message also starts a 5 s auto-hide timeout
showStatus(b, slot, text, arg, type) ==
    [b EXCEPT !.status[slot] = Message(text, arg, type),
              !.timers[slot] = IF type = "success" THEN @ + 1 ELSE @]

\* the operation returns normally / from its catch block (console.error)
Finished(b, outcome) == [b EXCEPT !.r.pc = "done", !.r.outcome = outcome]
Failed(b, outcome) == [b EXCEPT !.r.pc = "done", !.r.outcome = outcome, !.r.logged = TRUE]
\* the operation issues a call to an external capability and awaits it
Await(b, pc) == [b EXCEPT !.r.pc = pc, !.r.calls = @ + 1]

\* the slot a new async operation is recorded in: the first free one, else
\* the first finished one (whose record is then forgotten)
FreeTasks == {t \in Tasks : task[t].pc = "idle"}
DoneTasks == {t \in Tasks : task[t].pc = "done"}
HasSlot == FreeTasks \cup DoneTasks # {}
Slot ==
    LET pool == IF FreeTasks # {} THEN FreeTasks ELSE DoneTasks
    IN  CHOOSE t \in pool : \A u \in pool : t <= u

\* ------------------------------------------------------------------------
\* init(): loadContractInfo, setupEventListeners, checkWalletConnection,
\* updateContractInfo
\* ------------------------------------------------------------------------
\* checkWalletConnection() up to its first await
checkWalletConnection(b) ==
    IF ethereum
    THEN Await([b EXCEPT !.r.kind = "check"], "eth_accounts")
    ELSE showStatus(b, "connectionStatus", "Please install MetaMask or another Web3 wallet",
                    NoArg, "error")

\* the rest of init() once loadContractInfo has returned: the listeners are
\* bound, checkWalletConnection() is started (not awaited), and
\* updateContractInfo() runs to its fetch
AfterLoadContractInfo ==
    /\ listeners' = TRUE
    /\ init' = [init EXCEPT !.pc = "fetchSummary"]
    /\ Commit(Slot, checkWalletConnection(Bundle(NoTask)))

\* Promise.all([fetch, fetch]) rejects: caught and logged by loadContractInfo
LoadFetchRejected ==
    /\ init.pc = "fetchInfo"
    /\ AfterLoadContractInfo
    /\ UNCHANGED <<env, session, txHistory, buttons, display, txHistoryHTML,
                   alerts, requests, hashes, clicks>>

\* both fetches resolve, with response.ok = cOk and aOk
LoadFetched(cOk, aOk) ==
    /\ init.pc = "fetchInfo"
    /\ IF cOk \/ aOk
       THEN /\ init' = [pc |-> IF cOk THEN "contractJson" ELSE "abiJson", abiOk |-> aOk]
            /\ UNCHANGED <<listeners, task, status, timers, inputs>>
       ELSE AfterLoadContractInfo
    /\ UNCHANGED <<env, session, txHistory, buttons, display, txHistoryHTML,
                   alerts, requests, hashes, clicks>>

\* contractResponse.json() resolves with the payload's address (possibly
\* missing), or rejects (caught: the descriptor is then never read)
LoadContractJson(ok, address) ==
    /\ init.pc = "contractJson"
    /\ contractAddress' = IF ok THEN address ELSE contractAddress
    /\ IF ok /\ init.abiOk
       THEN /\ init' = [init EXCEPT !.pc = "abiJson"]
            /\ UNCHANGED <<listeners, task, status, timers, inputs>>
       ELSE AfterLoadContractInfo
    /\ UNCHANGED <<env, provider, signer, contract, contractABI, userAddress, txHistory,
                   buttons, display, txHistoryHTML, alerts, requests, hashes, clicks>>

\* abiResponse.json() resolves or rejects
LoadAbiJson(ok) ==
    /\ init.pc = "abiJson"
    /\ contractABI' = IF ok THEN CONTRACT_ABI ELSE contractABI
    /\ AfterLoadContractInfo
    /\ UNCHANGED <<env, provider, signer, contract, contractAddress, userAddress, txHistory,
                   buttons, display, txHistoryHTML, alerts, requests, hashes, clicks>>

\* updateContractInfo: the fetch resolves (ok or not) or rejects
SummaryFetched(ok) ==
    /\ init.pc = "fetchSummary"
    /\ init' = [init EXCEPT !.pc = IF ok THEN "summaryJson" ELSE "done"]
    /\ UNCHANGED <<env, session, txHistory, listeners, task, dom, requests, hashes, clicks>>

\* updateContractInfo: response.json() resolves (the four token slots are
\* written) or rejects
SummaryJson(ok) ==
    /\ init.pc = "summaryJson"
    /\ init' = [init EXCEPT !.pc = "done"]
    /\ display' = IF ok THEN [display EXCEPT !.tokenInfo = "shown"] ELSE display
    /\ UNCHANGED <<env, session, txHistory, listeners, task, buttons, status, timers,
                   inputs, txHistoryHTML, alerts, requests, hashes, clicks>>

\* ------------------------------------------------------------------------
\* updateTokenInfo and what follows it in its caller
\* ------------------------------------------------------------------------
\* updateTokenInfo has returned: connectWallet reports success,
\* transferTokens clears its form, mintTokens has nothing left to do
AfterUpdateTokenInfo(b) ==
    IF b.r.kind \in {"connect", "check"}
    THEN Finished(showStatus(b, "connectionStatus", "Wallet connected successfully!",
                             NoArg, "success"), "Connected")
    ELSE IF b.r.kind = "transfer"
    THEN Finished([b EXCEPT !.inputs.transferTo = << >>, !.inputs.transferAmount = << >>],
                  "Confirmed")
    ELSE Finished(b, "Confirmed")

\* updateTokenInfo() is called: it returns at once without a bound contract
\* or a user address, else issues contract.balanceOf
updateTokenInfo(b) ==
    LET b1 == [b EXCEPT !.r.refreshed = TRUE]
    IN  IF contract = NULL \/ userAddress = NULL
        THEN AfterUpdateTokenInfo(b1)
        ELSE Await(b1, "balanceOf")

\* an updateTokenInfo whose two lookups would be independent: the whitelist
\* is queried even when balanceOf has rejected
TokenBalanceOfIndependent(t, ok) ==
    /\ task[t].pc = "balanceOf"
    /\ IF ok
       THEN /\ display' = [display EXCEPT !.userBalance = "shown"]
            /\ Commit(t, Await(Bundle(task[t]), "whitelist"))
       ELSE /\ Commit(t, Await(Bundle([task[t] EXCEPT !.logged = TRUE]), "whitelist"))
            /\ UNCHANGED display
    /\ UNCHANGED <<env, session, txHistory, init, listeners, buttons, txHistoryHTML,
                   alerts, requests, hashes, clicks>>

\* contract.balanceOf resolves (the balance slot is written, whitelist is
\* queried) or rejects (logged, the whitelist query is never issued)
TokenBalanceOf(t, ok) ==
    /\ task[t].pc = "balanceOf"
    /\ IF ok
       THEN /\ display' = [display EXCEPT !.userBalance = "shown"]
            /\ Commit(t, Await(Bundle(task[t]), "whitelist"))
       ELSE /\ Commit(t, AfterUpdateTokenInfo(Bundle([task[t] EXCEPT !.logged = TRUE])))
            /\ UNCHANGED display
    /\ UNCHANGED <<env, session, txHistory, init, listeners, buttons, txHistoryHTML,
                   alerts, requests, hashes, clicks>>

\* contract.whitelist resolves (the whitelist slot shows the answer, whose
\* value is not modelled) or rejects (logged)
TokenWhitelist(t, ok) ==
    /\ task[t].pc = "whitelist"
    /\ IF ok
       THEN /\ display' = [display EXCEPT !.whitelistStatus = "shown"]
            /\ Commit(t, AfterUpdateTokenInfo(Bundle(task[t])))
       ELSE /\ Commit(t, AfterUpdateTokenInfo(Bundle([task[t] EXCEPT !.logged = TRUE])))
            /\ UNCHANGED display
    /\ UNCHANGED <<env, session, txHistory, init, listeners, buttons, txHistoryHTML,
                   alerts, requests, hashes, clicks>>

\* ------------------------------------------------------------------------
\* checkWalletConnection and connectWallet
\* ------------------------------------------------------------------------
\* a catch block of connectWallet that would log the error without
\* reporting it
ConnectCatchSilent(b, message, outcome) == Failed(b, outcome)

\* the catch block of connectWallet
ConnectCatch(b, message, outcome) ==
    Failed(showStatus(b, "connectionStatus", "Connection failed: ", ErrorArg(message), "error"),
           outcome)

\* a connectWallet that would create the signer only after getAddress
ConnectBeginProviderOnly(t) ==
    /\ provider' = PROVIDER
    /\ signer' = signer
    /\ Commit(t, Await(Bundle(task[t]), "getAddress"))

\* connectWallet from `new Web3Provider` to its getAddress call
ConnectBegin(t) ==
    /\ provider' = PROVIDER
    /\ signer' = SIGNER
    /\ Commit(t, Await(Bundle(task[t]), "getAddress"))

\* a click on #connectBtn: connectWallet(true) up to eth_requestAccounts
ConnectClick(budget) ==
    /\ clicks < budget /\ clicks' = clicks + 1
    /\ listeners /\ ~buttons.connectBtn /\ HasSlot
    /\ LET b == Bundle([NoTask EXCEPT !.kind = "connect", !.request = TRUE])
       IN  Commit(Slot, IF ~ethereum
                        THEN ConnectCatch(b, "Please install MetaMask", "CapabilityMissing")
                        ELSE Await(b, "eth_requestAccounts"))
    /\ UNCHANGED <<env, session, txHistory, init, listeners, buttons, display,
                   txHistoryHTML, alerts, requests, hashes>>

\* eth_requestAccounts resolves (the user approves) or rejects
RequestAccounts(t, ok) ==
    /\ task[t].pc = "eth_requestAccounts"
    /\ IF ok
       THEN /\ accounts' = TRUE
            /\ ConnectBegin(t)
       ELSE /\ Commit(t, ConnectCatch(Bundle(task[t]), CAPABILITY_ERROR, "UserRejected"))
            /\ UNCHANGED <<accounts, provider, signer>>
    /\ UNCHANGED <<ethereum, chainId, reloaded, contract, contractAddress, contractABI,
                   userAddress, txHistory, init, listeners, buttons, display,
                   txHistoryHTML, alerts, requests, hashes, clicks>>

\* a checkWalletConnection that would enter connectWallet(false) without
\* looking at the accounts it was given
CheckAccountsAlwaysConnects(t, ok) ==
    /\ task[t].pc = "eth_accounts"
    /\ IF ok
       THEN ConnectBegin(t)
       ELSE /\ Commit(t, Failed(Bundle(task[t]), "CheckFailed"))
            /\ UNCHANGED <<provider, signer>>
    /\ UNCHANGED <<env, contract, contractAddress, contractABI, userAddress, txHistory,
                   init, listeners, buttons, display, txHistoryHTML, alerts, requests,
                   hashes, clicks>>

\* checkWalletConnection: eth_accounts resolves with the authorized accounts
\* (connectWallet(false) is entered when there is one) or rejects (logged)
CheckAccounts(t, ok) ==
    /\ task[t].pc = "eth_accounts"
    /\ IF ok /\ accounts
       THEN ConnectBegin(t)
       ELSE /\ Commit(t, IF ok THEN Finished(Bundle(task[t]), "NoAccounts")
                         ELSE Failed(Bundle(task[t]), "CheckFailed"))
            /\ UNCHANGED <<provider, signer>>
    /\ UNCHANGED <<env, contract, contractAddress, contractABI, userAddress, txHistory,
                   init, listeners, buttons, display, txHistoryHTML, alerts, requests,
                   hashes, clicks>>

\* signer.getAddress resolves (getNetwork is called next) or rejects
GetAddress(t, ok) ==
    /\ task[t].pc = "getAddress"
    /\ ok => accounts
    /\ userAddress' = IF ok THEN USER_ADDRESS ELSE userAddress
    /\ Commit(t, IF ok THEN Await(Bundle(task[t]), "getNetwork")
                 ELSE ConnectCatch(Bundle(task[t]), CAPABILITY_ERROR, "ConnectFailed"))
    /\ UNCHANGED <<env, provider, signer, contract, contractAddress, contractABI,
                   txHistory, init, listeners, buttons, display, txHistoryHTML,
                   alerts, requests, hashes, clicks>>

\* the contract connectWallet binds: only with both the address and the ABI
BoundContract == IF contractAddress # NULL /\ contractABI # NULL THEN CONTRACT ELSE contract

\* a connectWallet that would bind the contract without the network check
GetNetworkUnchecked(t, ok) ==
    /\ task[t].pc = "getNetwork"
    /\ LET b == Bundle(task[t])
       IN  IF ~ok
           THEN /\ Commit(t, ConnectCatch(b, CAPABILITY_ERROR, "ConnectFailed"))
                /\ UNCHANGED <<contract, display>>
           ELSE /\ contract' = BoundContract
                /\ display' = [display EXCEPT !.accountAddress = formatAddress(userAddress)]
                /\ Commit(t, Await(b, "getBalance"))
    /\ UNCHANGED <<env, provider, signer, contractAddress, contractABI, userAddress,
                   txHistory, init, listeners, buttons, txHistoryHTML, alerts, requests,
                   hashes, clicks>>

\* provider.getNetwork resolves: the network check, the contract binding and
\* updateUI up to its getBalance call; or it rejects
GetNetwork(t, ok) ==
    /\ task[t].pc = "getNetwork"
    /\ LET b == Bundle(task[t])
       IN  IF ~ok
           THEN /\ Commit(t, ConnectCatch(b, CAPABILITY_ERROR, "ConnectFailed"))
                /\ UNCHANGED <<contract, display>>
           ELSE IF chainId # EXPECTED_CHAIN_ID
           THEN /\ Commit(t, Finished(showStatus(b, "connectionStatus",
                                "Please switch to Monad Testnet", NoArg, "error"), "WrongNetwork"))
                /\ UNCHANGED <<contract, display>>
           ELSE /\ contract' = BoundContract
                /\ IF userAddress = NULL
                   THEN /\ Commit(t, Finished(showStatus(b, "connectionStatus",
                                        "Wallet connected successfully!", NoArg, "success"),
                                        "Connected"))
                        /\ UNCHANGED display
                   ELSE /\ display' = [display EXCEPT !.accountAddress = formatAddress(userAddress)]
                        /\ Commit(t, Await(b, "getBalance"))
    /\ UNCHANGED <<env, provider, signer, contractAddress, contractABI, userAddress,
                   txHistory, init, listeners, buttons, txHistoryHTML, alerts, requests,
                   hashes, clicks>>

\* the buttons after updateUI's "Show connected UI" / "Enable interaction buttons"
ConnectedButtons == [connectBtn |-> TRUE, mintBtn |-> FALSE, transferBtn |-> FALSE]

\* provider.getBalance resolves (rest of updateUI, then updateTokenInfo and
\* the success message) or rejects
GetBalance(t, ok) ==
    /\ task[t].pc = "getBalance"
    /\ IF ok
       THEN /\ display' = [display EXCEPT !.accountBalance = "shown", !.accountInfo = TRUE]
            /\ buttons' = ConnectedButtons
            /\ Commit(t, updateTokenInfo(Bundle(task[t])))
       ELSE /\ Commit(t, ConnectCatch(Bundle(task[t]), CAPABILITY_ERROR, "ConnectFailed"))
            /\ UNCHANGED <<display, buttons>>
    /\ UNCHANGED <<env, session, txHistory, init, listeners, txHistoryHTML, alerts,
                   requests, hashes, clicks>>

\* ------------------------------------------------------------------------
\* The transaction log
\* ------------------------------------------------------------------------
\* a TransactionRecord (the timestamp, new Date(), is not modelled: the
\* hashes are issued in increasing order and give the order of submission)
Record(type, hash, amount, to) == [type |-> type, hash |-> hash, amount |-> amount, to |-> to]

\* a log that would grow at its tail: this.txHistory.push(record)
Push(history, record) == history \o <<record>>

\* this.txHistory.unshift(record)
Unshift(history, record) == <<record>> \o history

\* a display without the slice(0, 10): every record of the log is rendered
renderWholeLog(history) == history

\* updateTransactionHistory(): the records rendered into #txHistory
\* (none for the "No transactions yet..." placeholder)
updateTransactionHistory(history) ==
    SubSeq(history, 1, IF Len(history) < DISPLAY_LIMIT THEN Len(history) ELSE DISPLAY_LIMIT)

\* addTransaction(type, hash, details)
addTransaction(record) ==
    /\ txHistory' = Unshift(txHistory, record)
    /\ txHistoryHTML' = updateTransactionHistory(txHistory')

\* ------------------------------------------------------------------------
\* mintTokens
\* ------------------------------------------------------------------------
\* the validation of mintTokens: the error text, or "" when the amount passes
ValidateMint(amount) ==
    IF Falsy(amount) \/ LeqZero(ToNumber(amount)) THEN "Please enter a valid amount"
    ELSE IF GreaterThan(ToNumber(amount), MAX_MINT) THEN "Maximum mint amount is 1000 tokens"
    ELSE ""

\* a catch block that would also clear the transfer form
TxCatchClearsForm(b, slot, text, message) ==
    Failed([showStatus(b, slot, text, ErrorArg(message), "error")
               EXCEPT !.inputs.transferTo = << >>, !.inputs.transferAmount = << >>],
           "TransactionFailed")

\* a catch block that would log the error without reporting it
TxCatchSilent(b, slot, text, message) == Failed(b, "TransactionFailed")

\* the catch block of mintTokens / transferTokens
TxCatch(b, slot, text, message) ==
    Failed(showStatus(b, slot, text, ErrorArg(message), "error"), "TransactionFailed")

\* a mintTokens that would return at once while another mint is in flight
MintClickOneAtATime(budget, typed) ==
    /\ clicks < budget /\ clicks' = clicks + 1
    /\ listeners /\ ~buttons.mintBtn /\ HasSlot
    /\ LET amount == typed
           b == [Bundle([NoTask EXCEPT !.kind = "mint", !.amount = amount])
                   EXCEPT !.inputs.mintAmount = typed]
           wei == parseEther(amount)
           busy == \E u \in Tasks : task[u].kind = "mint" /\ task[u].pc \notin {"idle", "done"}
       IN  Commit(Slot,
             IF contract = NULL \/ busy THEN Finished(b, "NoContract")
             ELSE IF ValidateMint(amount) # ""
             THEN Finished(showStatus(b, "mintStatus", ValidateMint(amount), NoArg, "error"),
                           "ValidationError")
             ELSE IF ~wei.ok THEN TxCatch(b, "mintStatus", "Mint failed: ", wei.message)
             ELSE Await([showStatus(b, "mintStatus", "Minting tokens...", NoArg, "info")
                            EXCEPT !.r.submits = @ + 1], "whitelistMint"))
    /\ UNCHANGED <<env, session, txHistory, init, listeners, buttons, display,
                   txHistoryHTML, alerts, requests, hashes>>

\* the user leaves `typed` in #mintAmount and clicks #mintBtn: mintTokens()
\* up to its whitelistMint call
MintClick(budget, typed) ==
    /\ clicks < budget /\ clicks' = clicks + 1
    /\ listeners /\ ~buttons.mintBtn /\ HasSlot
    /\ LET amount == typed
           b == [Bundle([NoTask EXCEPT !.kind = "mint", !.amount = amount])
                   EXCEPT !.inputs.mintAmount = typed]
           wei == parseEther(amount)
       IN  Commit(Slot,
             IF contract = NULL THEN Finished(b, "NoContract")
             ELSE IF ValidateMint(amount) # ""
             THEN Finished(showStatus(b, "mintStatus", ValidateMint(amount), NoArg, "error"),
                           "ValidationError")
             ELSE IF ~wei.ok THEN TxCatch(b, "mintStatus", "Mint failed: ", wei.message)
             ELSE Await([showStatus(b, "mintStatus", "Minting tokens...", NoArg, "info")
                            EXCEPT !.r.submits = @ + 1], "whitelistMint"))
    /\ UNCHANGED <<env, session, txHistory, init, listeners, buttons, display,
                   txHistoryHTML, alerts, requests, hashes>>

\* a mintTokens that would add its record in the catch block as well
MintSubmittedLogsFailure(t, ok) ==
    /\ task[t].pc = "whitelistMint"
    /\ LET b == Bundle(task[t])
           hash == hashes + 1
       IN  IF ok
           THEN /\ hashes' = hash
                /\ addTransaction(Record("Mint", hash, task[t].amount, << >>))
                /\ Commit(t, Await([showStatus(b, "mintStatus", "Transaction sent: ",
                                               HashArg(hash), "info")
                                      EXCEPT !.r.hash = hash], "wait"))
           ELSE /\ Commit(t, TxCatch(b, "mintStatus", "Mint failed: ", CAPABILITY_ERROR))
                /\ addTransaction(Record("Mint", 0, task[t].amount, << >>))
                /\ UNCHANGED hashes
    /\ UNCHANGED <<env, session, init, listeners, buttons, display, alerts, requests, clicks>>

\* contract.whitelistMint resolves with a transaction (its hash is reported,
\* the record is added, tx.wait() is called) or rejects
MintSubmitted(t, ok) ==
    /\ task[t].pc = "whitelistMint"
    /\ LET b == Bundle(task[t])
           hash == hashes + 1
       IN  IF ok
           THEN /\ hashes' = hash
                /\ addTransaction(Record("Mint", hash, task[t].amount, << >>))
                /\ Commit(t, Await([showStatus(b, "mintStatus", "Transaction sent: ",
                                               HashArg(hash), "info")
                                      EXCEPT !.r.hash = hash], "wait"))
           ELSE /\ Commit(t, TxCatch(b, "mintStatus", "Mint failed: ", CAPABILITY_ERROR))
                /\ UNCHANGED <<hashes, txHistory, txHistoryHTML>>
    /\ UNCHANGED <<env, session, init, listeners, buttons, display, alerts, requests, clicks>>

\* a mintTokens that would move its record to the head of the log when the
\* confirmation arrives
MintConfirmedMovesToHead(t, ok) ==
    /\ task[t].pc = "wait" /\ task[t].kind = "mint"
    /\ LET b == Bundle(task[t])
           mine == SelectSeq(txHistory, LAMBDA r : r.hash = task[t].hash)
           others == SelectSeq(txHistory, LAMBDA r : r.hash # task[t].hash)
       IN  /\ Commit(t, IF ok
                        THEN updateTokenInfo(showStatus(b, "mintStatus", "Successfully minted ",
                                                        AmountArg(task[t].amount), "success"))
                        ELSE TxCatch(b, "mintStatus", "Mint failed: ", CAPABILITY_ERROR))
           /\ txHistory' = IF ok THEN mine \o others ELSE txHistory
           /\ txHistoryHTML' = updateTransactionHistory(txHistory')
    /\ UNCHANGED <<env, session, init, listeners, buttons, display,
                   alerts, requests, hashes, clicks>>

\* tx.wait() of a mint resolves (success is reported, updateTokenInfo is
\* called) or rejects
MintConfirmed(t, ok) ==
    /\ task[t].pc = "wait" /\ task[t].kind = "mint"
    /\ LET b == Bundle(task[t])
       IN  Commit(t, IF ok
                     THEN updateTokenInfo(showStatus(b, "mintStatus", "Successfully minted ",
                                                     AmountArg(task[t].amount), "success"))
                     ELSE TxCatch(b, "mintStatus", "Mint failed: ", CAPABILITY_ERROR))
    /\ UNCHANGED <<env, session, txHistory, init, listeners, buttons, display,
                   txHistoryHTML, alerts, requests, hashes, clicks>>

\* ------------------------------------------------------------------------
\* transferTokens
\* ------------------------------------------------------------------------
\* the validation of transferTokens: the error text, or "" when both pass
ValidateTransfer(to, amount) ==
    IF Falsy(to) \/ ~isAddress(to) THEN "Please enter a valid address"
    ELSE IF Falsy(amount) \/ LeqZero(ToNumber(amount)) THEN "Please enter a valid amount"
    ELSE ""

\* the user leaves `typedTo` and `typed` in #transferTo and #transferAmount
\* and clicks #transferBtn: transferTokens() up to its transfer call
TransferClick(budget, typedTo, typed) ==
    /\ clicks < budget /\ clicks' = clicks + 1
    /\ listeners /\ ~buttons.transferBtn /\ HasSlot
    /\ LET to == typedTo
           amount == typed
           b == [Bundle([NoTask EXCEPT !.kind = "transfer", !.amount = amount, !.to = to])
                   EXCEPT !.inputs.transferTo = typedTo, !.inputs.transferAmount = typed]
           wei == parseEther(amount)
       IN  Commit(Slot,
             IF contract = NULL THEN Finished(b, "NoContract")
             ELSE IF ValidateTransfer(to, amount) # ""
             THEN Finished(showStatus(b, "transferStatus", ValidateTransfer(to, amount),
                                      NoArg, "error"), "ValidationError")
             ELSE IF ~wei.ok THEN TxCatch(b, "transferStatus", "Transfer failed: ", wei.message)
             ELSE Await([showStatus(b, "transferStatus", "Transferring tokens...", NoArg, "info")
                            EXCEPT !.r.submits = @ + 1], "transfer"))
    /\ UNCHANGED <<env, session, txHistory, init, listeners, buttons, display,
                   txHistoryHTML, alerts, requests, hashes>>

\* contract.transfer resolves with a transaction or rejects
TransferSubmitted(t, ok) ==
    /\ task[t].pc = "transfer"
    /\ LET b == Bundle(task[t])
           hash == hashes + 1
       IN  IF ok
           THEN /\ hashes' = hash
                /\ addTransaction(Record("Transfer", hash, task[t].amount,
                                         formatAddress(task[t].to)))
                /\ Commit(t, Await([showStatus(b, "transferStatus", "Transaction sent: ",
                                               HashArg(hash), "info")
                                      EXCEPT !.r.hash = hash], "wait"))
           ELSE /\ Commit(t, TxCatch(b, "transferStatus", "Transfer failed: ", CAPABILITY_ERROR))
                /\ UNCHANGED <<hashes, txHistory, txHistoryHTML>>
    /\ UNCHANGED <<env, session, init, listeners, buttons, display, alerts, requests, clicks>>

\* tx.wait() of a transfer resolves or rejects
TransferConfirmed(t, ok) ==
    /\ task[t].pc = "wait" /\ task[t].kind = "transfer"
    /\ LET b == Bundle(task[t])
       IN  Commit(t, IF ok
                     THEN updateTokenInfo(showStatus(b, "transferStatus",
                                                     "Successfully transferred ",
                                                     AmountArg(task[t].amount), "success"))
                     ELSE TxCatch(b, "transferStatus", "Transfer failed: ", CAPABILITY_ERROR))
    /\ UNCHANGED <<env, session, txHistory, init, listeners, buttons, display,
                   txHistoryHTML, alerts, requests, hashes, clicks>>

\* ------------------------------------------------------------------------
\* addNetwork
\* ------------------------------------------------------------------------
\* the parameters of the wallet_addEthereumChain request
AddChainRequest ==
    [method |-> "wallet_addEthereumChain", chainId |-> ADD_CHAIN_ID,
     rpcUrl |-> ADD_RPC_URL, blockExplorerUrl |-> ADD_EXPLORER_URL]

\* a click on #addNetworkBtn: addNetwork() up to its request; without
\* window.ethereum the property access throws and the catch block alerts
AddNetworkClick(budget) ==
    /\ clicks < budget /\ clicks' = clicks + 1
    /\ listeners /\ HasSlot
    /\ LET b == Bundle([NoTask EXCEPT !.kind = "addNetwork"])
       IN  IF ethereum
           THEN /\ requests' = requests \cup {AddChainRequest}
                /\ Commit(Slot, Await(b, "wallet_addEthereumChain"))
                /\ UNCHANGED alerts
           ELSE /\ alerts' = "Failed to add network: "
                /\ Commit(Slot, Failed(b, "AddFailed"))
                /\ UNCHANGED requests
    /\ UNCHANGED <<env, session, txHistory, init, listeners, buttons, display,
                   txHistoryHTML, hashes>>

\* the wallet_addEthereumChain request resolves or rejects
AddNetworkDone(t, ok) ==
    /\ task[t].pc = "wallet_addEthereumChain"
    /\ alerts' = IF ok THEN "Monad Testnet added to your wallet!" ELSE "Failed to add network: "
    /\ Commit(t, IF ok THEN Finished(Bundle(task[t]), "Added")
                 ELSE Failed(Bundle(task[t]), "AddFailed"))
    /\ UNCHANGED <<env, session, txHistory, init, listeners, buttons, display,
                   txHistoryHTML, requests, hashes, clicks>>

\* ------------------------------------------------------------------------
\* The timers and the wallet's notifications
\* ------------------------------------------------------------------------
\* a 5 s auto-hide timeout of showStatus fires
TimerFires(slot) ==
    /\ timers[slot] > 0
    /\ timers' = [timers EXCEPT ![slot] = @ - 1]
    /\ status' = [status EXCEPT ![slot].hidden = TRUE]
    /\ UNCHANGED <<env, session, txHistory, init, listeners, task, buttons, inputs,
                   display, txHistoryHTML, alerts, requests, hashes, clicks>>

\* a handler that would reset the session in place and keep the log
ReloadKeepsHistory ==
    /\ reloaded' = TRUE
    /\ provider' = NULL /\ signer' = NULL /\ contract' = NULL
    /\ contractAddress' = NULL /\ contractABI' = NULL /\ userAddress' = NULL
    /\ init' = FreshInit
    /\ listeners' = FALSE
    /\ task' = FreshTasks
    /\ buttons' = FreshButtons
    /\ status' = FreshStatus
    /\ timers' = FreshTimers
    /\ inputs' = FreshInputs
    /\ display' = FreshDisplay
    /\ alerts' = ""
    /\ requests' = {}
    /\ clicks' = 0
    /\ UNCHANGED <<txHistory, txHistoryHTML, hashes>>

\* location.reload(): every object of the page is discarded and the script
\* runs again
Reload ==
    /\ reloaded' = TRUE
    /\ provider' = NULL /\ signer' = NULL /\ contract' = NULL
    /\ contractAddress' = NULL /\ contractABI' = NULL /\ userAddress' = NULL
    /\ txHistory' = << >>
    /\ init' = FreshInit
    /\ listeners' = FALSE
    /\ task' = FreshTasks
    /\ buttons' = FreshButtons
    /\ status' = FreshStatus
    /\ timers' = FreshTimers
    /\ inputs' = FreshInputs
    /\ display' = FreshDisplay
    /\ txHistoryHTML' = << >>
    /\ alerts' = ""
    /\ requests' = {}
    /\ hashes' = 0
    /\ clicks' = 0

\* the accountsChanged handler (registered only when window.ethereum exists)
AccountsChanged(authorized) ==
    /\ ethereum
    /\ accounts' = authorized
    /\ UNCHANGED <<ethereum, chainId>>
    /\ Reload

\* the chainChanged handler
ChainChanged(id) ==
    /\ ethereum
    /\ id # chainId
    /\ chainId' = id
    /\ UNCHANGED <<ethereum, accounts>>
    /\ Reload

\* the steps of init()
InitSteps ==
    \/ LoadFetchRejected
    \/ \E cOk, aOk \in BOOLEAN : LoadFetched(cOk, aOk)
    \/ \E ok \in BOOLEAN, address \in {NULL, CONTRACT_ADDRESS} : LoadContractJson(ok, address)
    \/ \E ok \in BOOLEAN : LoadAbiJson(ok)
    \/ \E ok \in BOOLEAN : SummaryFetched(ok)
    \/ \E ok \in BOOLEAN : SummaryJson(ok)

\* an awaited capability call of an operation in flight resolves or rejects
Resolutions ==
    \/ \E t \in Tasks, ok \in BOOLEAN : RequestAccounts(t, ok)
    \/ \E t \in Tasks, ok \in BOOLEAN : CheckAccounts(t, ok)
    \/ \E t \in Tasks, ok \in BOOLEAN : GetAddress(t, ok)
    \/ \E t \in Tasks, ok \in BOOLEAN : GetNetwork(t, ok)
    \/ \E t \in Tasks, ok \in BOOLEAN : GetBalance(t, ok)
    \/ \E t \in Tasks, ok \in BOOLEAN : TokenBalanceOf(t, ok)
    \/ \E t \in Tasks, ok \in BOOLEAN : TokenWhitelist(t, ok)
    \/ \E t \in Tasks, ok \in BOOLEAN : MintSubmitted(t, ok)
    \/ \E t \in Tasks, ok \in BOOLEAN : MintConfirmed(t, ok)
    \/ \E t \in Tasks, ok \in BOOLEAN : TransferSubmitted(t, ok)
    \/ \E t \in Tasks, ok \in BOOLEAN : TransferConfirmed(t, ok)
    \/ \E t \in Tasks, ok \in BOOLEAN : AddNetworkDone(t, ok)

\* the user clicks one of the four buttons, within a budget of clicks
Clicks(budget) ==
    \/ ConnectClick(budget)
    \/ \E a \in AmountInputs : MintClick(budget, a)
    \/ \E i \in TransferInputs : TransferClick(budget, i.to, i.amount)
    \/ AddNetworkClick(budget)

\* a timeout fires, or the wallet signals a change (the page reloads)
Events ==
    \/ \E s \in Slots : TimerFires(s)
    \/ \E a \in BOOLEAN : AccountsChanged(a)
    \/ \E id \in ChainIds : ChainChanged(id)

Next == InitSteps \/ Resolutions \/ Clicks(MaxClicks) \/ Events

Spec == Init /\ [][Next]_vars

\* the same program with room for one more click, so that two operations the
\* user started run concurrently with each other, while no timeout fires and
\* the wallet signals no change
NextConcurrent == InitSteps \/ Resolutions \/ Clicks(MaxClicks + 1)

SpecConcurrent == Init /\ [][NextConcurrent]_vars

\* A session in which the user does nothing but mint 5 tokens, one mint
\* after the other: the log grows past the window of the history display.
MintAgain ==
    /\ \A t \in Tasks : task[t].pc \in {"idle", "done"}
    /\ MintClick(MaxLog, <<"5">>)

NextHistory ==
    \/ InitSteps
    \/ \E t \in Tasks, ok \in BOOLEAN : CheckAccounts(t, ok)
    \/ \E t \in Tasks, ok \in BOOLEAN : GetAddress(t, ok)
    \/ \E t \in Tasks, ok \in BOOLEAN : GetNetwork(t, ok)
    \/ \E t \in Tasks, ok \in BOOLEAN : GetBalance(t, ok)
    \/ \E t \in Tasks, ok \in BOOLEAN : TokenBalanceOf(t, ok)
    \/ \E t \in Tasks, ok \in BOOLEAN : TokenWhitelist(t, ok)
    \/ MintAgain
    \/ \E t \in Tasks : MintSubmitted(t, TRUE)
    \/ \E t \in Tasks, ok \in BOOLEAN : MintConfirmed(t, ok)
    \/ \E s \in Slots : TimerFires(s)

SpecHistory == Init /\ [][NextHistory]_vars

\* ------------------------------------------------------------------------
\* What the claims speak about
\* ------------------------------------------------------------------------
IsConnect(t) == task[t].kind \in {"connect", "check"}
IsTx(t) == task[t].kind \in {"mint", "transfer"}
StatusSlotOf(kind) == IF kind = "mint" THEN "mintStatus" ELSE "transferStatus"
FailedTextOf(kind) == IF kind = "mint" THEN "Mint failed: " ELSE "Transfer failed: "

\* the records of the log that carry hash h
RecordsOf(h) == {i \in DOMAIN txHistory : txHistory[i].hash = h}

\* tx.wait() of operation t has resolved successfully
Confirmed(t) ==
    /\ IsTx(t)
    /\ task[t].hash > 0
    /\ \/ task[t].pc \in {"balanceOf", "whitelist"}
       \/ task[t].pc = "done" /\ task[t].outcome = "Confirmed"

\* tx.wait() of operation t has rejected
ConfirmationFailed(t) ==
    IsTx(t) /\ task[t].pc = "done" /\ task[t].outcome = "TransactionFailed" /\ task[t].hash > 0

\* 0 < a <= 1000 for the number the amount string denotes
InMintRange(amount) ==
    LET v == ToNumber(amount)
    IN  v.kind = "num" /\ ~LeqZero(v) /\ ~GreaterThan(v, MAX_MINT)
Positive(amount) == LET v == ToNumber(amount) IN v.kind = "num" /\ ~LeqZero(v)
OutOfMintRange(amount) ==
    LET v == ToNumber(amount) IN v.kind = "num" /\ (LeqZero(v) \/ GreaterThan(v, MAX_MINT))

\* ------------------------------------------------------------------------
\* C1
\* ------------------------------------------------------------------------
\* C1 (as claimed): whenever a connectWallet has returned on a network other
\* than 41454, provider, signer, userAddress and contract are all null.
C1_WrongNetworkLeavesSessionEmpty ==
    \A t \in Tasks :
        (IsConnect(t) /\ task[t].outcome = "WrongNetwork")
            => provider = NULL /\ signer = NULL /\ userAddress = NULL /\ contract = NULL

\* ------------------------------------------------------------------------
\* C2
\* ------------------------------------------------------------------------
SessionFields == <<provider, signer, contract, contractAddress, contractABI>>

\* C2 (as claimed): in every state (each one is a suspension point of the
\* operations in flight) the five session fields are all null or all set.
C2_AllAbsentOrAllPresent ==
    \/ \A i \in 1..5 : SessionFields[i] = NULL
    \/ \A i \in 1..5 : SessionFields[i] # NULL

\* C2 (amended): provider and signer are null together or set together, and
\* a bound contract comes with provider, signer, address and ABI all set.
C2_SessionConsistent ==
    /\ provider = NULL <=> signer = NULL
    /\ contract # NULL =>
          provider # NULL /\ signer # NULL /\ contractAddress # NULL /\ contractABI # NULL

\* a connected session with its contract bound
C2_Witness == contract # NULL /\ provider # NULL /\ userAddress # NULL

\* ------------------------------------------------------------------------
\* C3
\* ------------------------------------------------------------------------
\* C3: the log holds exactly one record per hash the submission calls have
\* returned and nothing else, so a Mint or Transfer whose validation or
\* submission call failed (it has no hash) has left the log as it was.
C3_RecordOnlyAfterHash ==
    /\ Len(txHistory) = hashes
    /\ \A h \in 1..hashes : Cardinality(RecordsOf(h)) = 1
    /\ \A t \in Tasks :
          (IsTx(t) /\ task[t].pc \in {"whitelistMint", "transfer"}) => RecordsOf(task[t].hash) = {}
    /\ \A t \in Tasks :
          (IsTx(t) /\ task[t].pc = "done" /\ task[t].hash = 0) => RecordsOf(task[t].hash) = {}

\* a submission call has rejected, and so has a validation
C3_Witness ==
    \E t \in Tasks :
        /\ IsTx(t) /\ task[t].pc = "done" /\ task[t].hash = 0
        /\ task[t].outcome = "TransactionFailed" /\ task[t].submits = 1

\* ------------------------------------------------------------------------
\* C4
\* ------------------------------------------------------------------------
\* C4 (as claimed): a mint of an amount in (0, 1000] has issued the
\* whitelistMint call; a mint of an amount <= 0 or > 1000 has ended with a
\* validation error in #mintStatus, no call issued and no record added.
C4_MintValidation ==
    \A t \in Tasks :
        (task[t].kind = "mint" /\ task[t].outcome # "NoContract") =>
            /\ InMintRange(task[t].amount) => task[t].submits = 1
            /\ OutOfMintRange(task[t].amount) =>
                  /\ task[t].outcome = "ValidationError"
                  /\ task[t].calls = 0 /\ task[t].hash = 0

\* ------------------------------------------------------------------------
\* C5
\* ------------------------------------------------------------------------
\* C5 (as claimed): a transfer to a malformed address has ended with a
\* validation error and no call issued; a transfer of an amount > 0 to a
\* well-formed address has issued the transfer call.
C5_TransferValidation ==
    \A t \in Tasks :
        (task[t].kind = "transfer" /\ task[t].outcome # "NoContract") =>
            /\ ~isAddress(task[t].to) =>
                  task[t].outcome = "ValidationError" /\ task[t].calls = 0
            /\ (isAddress(task[t].to) /\ Positive(task[t].amount)) => task[t].submits = 1

\* ------------------------------------------------------------------------
\* C6
\* ------------------------------------------------------------------------
\* C6 (as claimed): at the step in which tx.wait() of a Mint or Transfer
\* resolves, the log holds exactly one record of that operation, this
\* record is the head of the log, and updateTokenInfo has been called.
C6_ConfirmedRecordAtHead ==
    [][\A t \in Tasks :
          (IsTx(t) /\ task[t].pc = "wait" /\ task'[t].pc # "wait" /\ task'[t].refreshed) =>
              /\ txHistory' # << >>
              /\ txHistory'[1].hash = task[t].hash
              /\ Cardinality({i \in DOMAIN txHistory' : txHistory'[i].hash = task[t].hash}) = 1
      ]_vars

\* C6 (amended): once tx.wait() of a Mint or Transfer has resolved, the log
\* holds exactly one record of that operation, updateTokenInfo has been
\* called, and the record lies below exactly the records of the submissions
\* that returned their hash after it: it is the head when there are none.
C6_ConfirmedRecordInOrder ==
    \A t \in Tasks :
        Confirmed(t) =>
            /\ Cardinality(RecordsOf(task[t].hash)) = 1
            /\ task[t].refreshed
            /\ RecordsOf(task[t].hash) = {hashes - task[t].hash + 1}

\* a confirmed operation whose record is no longer the head of the log
C6_Witness ==
    \E t \in Tasks : Confirmed(t) /\ txHistory # << >> /\ txHistory[1].hash # task[t].hash

\* ------------------------------------------------------------------------
\* C7
\* ------------------------------------------------------------------------
\* C7: the step in which tx.wait() of a Mint or Transfer rejects leaves the
\* log as it is, with the one record added at submission in it, puts
\* "Mint failed: " / "Transfer failed: " with the error's message in the
\* operation's status slot, and the operation ends having issued its
\* submission call once and without calling updateTokenInfo.
C7_FailedConfirmation ==
    [][\A t \in Tasks :
          (IsTx(t) /\ task[t].pc = "wait" /\ task'[t].pc = "done") =>
              /\ task'[t].outcome = "TransactionFailed"
              /\ txHistory' = txHistory /\ txHistoryHTML' = txHistoryHTML
              /\ Cardinality(RecordsOf(task[t].hash)) = 1
              /\ status'[StatusSlotOf(task[t].kind)] =
                    Message(FailedTextOf(task[t].kind), ErrorArg(CAPABILITY_ERROR), "error")
              /\ task'[t].submits = 1 /\ task'[t].calls = 2
              /\ ~task'[t].refreshed
              /\ hashes' = hashes
      ]_vars

\* tx.wait() has rejected
C7_Witness == \E t \in Tasks : ConfirmationFailed(t)

\* ------------------------------------------------------------------------
\* C8
\* ------------------------------------------------------------------------
\* C8: #txHistory never shows more than 10 entries, and the entries it
\* shows are the head of the log, whose records are in most-recent-first
\* order (hashes are issued in increasing order).
C8_DisplayWindow ==
    /\ Len(txHistoryHTML) <= DISPLAY_LIMIT
    /\ Len(txHistoryHTML) = IF Len(txHistory) < DISPLAY_LIMIT THEN Len(txHistory) ELSE DISPLAY_LIMIT
    /\ \A i \in DOMAIN txHistoryHTML : txHistoryHTML[i] = txHistory[i]
    /\ \A i, j \in DOMAIN txHistory : i < j => txHistory[i].hash > txHistory[j].hash

\* the log holds more records than the display shows
C8_Witness == Len(txHistory) > DISPLAY_LIMIT /\ Len(txHistoryHTML) = DISPLAY_LIMIT

\* ------------------------------------------------------------------------
\* C9
\* ------------------------------------------------------------------------
\* C9 (as claimed): every addNetwork has issued exactly one request, every
\* request registers chain id 41454 with the fixed RPC and explorer
\* endpoints, and addNetwork adds no record to the log.
C9_AddNetworkRequest ==
    /\ \A t \in Tasks : task[t].kind = "addNetwork" => task[t].calls = 1 /\ task[t].hash = 0
    /\ \A r \in requests :
          /\ r.method = "wallet_addEthereumChain"
          /\ HexToNat(r.chainId) = EXPECTED_CHAIN_ID
          /\ r.rpcUrl = ADD_RPC_URL /\ r.blockExplorerUrl = ADD_EXPLORER_URL

\* ------------------------------------------------------------------------
\* C10
\* ------------------------------------------------------------------------
\* C10 (as claimed): when a connectWallet succeeds on network 41454 with
\* the contract address or the ABI missing, the contract is not bound and
\* #mintBtn and #transferBtn are disabled.
C10_NoContractKeepsButtonsDisabled ==
    \A t \in Tasks :
        (/\ IsConnect(t) /\ task[t].pc = "done" /\ task[t].outcome = "Connected"
         /\ (contractAddress = NULL \/ contractABI = NULL)) =>
            contract = NULL /\ buttons.mintBtn /\ buttons.transferBtn

\* ------------------------------------------------------------------------
\* C11
\* ------------------------------------------------------------------------
\* C11 (as claimed): a status slot that shows an error or info message is
\* never hidden while it shows that message: only a success message is
\* hidden by a timeout.
C11_OnlySuccessIsHidden ==
    [][\A s \in Slots :
          (/\ ~status[s].hidden /\ status'[s].hidden
           /\ status'[s].text = status[s].text /\ status[s].text # "") =>
              status[s].type = "success"
      ]_vars

\* ------------------------------------------------------------------------
\* C12
\* ------------------------------------------------------------------------
\* operation t logs an error in this step (console.error in a catch block)
LogsError(t) ==
    /\ task'[t] # task[t]
    /\ task'[t].logged
    /\ task'[t].kind \in {"connect", "check", "mint", "transfer"}
    /\ ~task[t].logged \/ task[t].pc \in {"idle", "done"}

\* the status slot, the button and the error text of an operation
SlotOf(kind) == IF kind \in {"connect", "check"} THEN "connectionStatus" ELSE StatusSlotOf(kind)
ButtonOf(kind) ==
    IF kind \in {"connect", "check"} THEN "connectBtn"
    ELSE IF kind = "mint" THEN "mintBtn" ELSE "transferBtn"
ErrorTextOf(kind) ==
    IF kind \in {"connect", "check"} THEN "Connection failed: " ELSE FailedTextOf(kind)

\* the error is caught by updateTokenInfo or by checkWalletConnection
\* itself, whose catch blocks only log
LoggedOnly(t) == task[t].pc \in {"balanceOf", "whitelist", "eth_accounts"}

\* C12 (as claimed): in every step in which a Connect, refresh, Mint or
\* Transfer logs an error, the operation's status slot shows an error
\* message and the operation's button is enabled.
C12_EveryErrorMirrored ==
    [][\A t \in Tasks :
          LogsError(t) =>
              /\ status'[SlotOf(task'[t].kind)].type = "error"
              /\ ~status'[SlotOf(task'[t].kind)].hidden
              /\ ~buttons'[ButtonOf(task'[t].kind)]
      ]_vars

\* C12 (amended): an error of connectWallet, mintTokens or transferTokens
\* ends the operation with "... failed: " and the error's message in the
\* operation's status slot, and the operation's button is enabled unless
\* another connectWallet has completed updateUI; an error of the token
\* lookups of updateTokenInfo or of the eth_accounts lookup is logged only:
\* no slot shows an error, and the caller goes on as after a success.  The
\* steps of init() write no status but the missing-wallet message.
C12_ErrorsCaughtAtBoundary ==
    [][/\ \A t \in Tasks :
             (LogsError(t) /\ ~LoggedOnly(t)) =>
                 /\ task'[t].pc = "done"
                 /\ task'[t].outcome \in {"CapabilityMissing", "UserRejected", "ConnectFailed",
                                          "TransactionFailed"}
                 /\ status'[SlotOf(task'[t].kind)].text = ErrorTextOf(task'[t].kind)
                 /\ status'[SlotOf(task'[t].kind)].type = "error"
                 /\ status'[SlotOf(task'[t].kind)].arg.message # ""
                 /\ ~status'[SlotOf(task'[t].kind)].hidden
                 /\ \/ ~buttons'[ButtonOf(task'[t].kind)]
                    \/ IsConnect(t) /\ display'.accountInfo
       /\ \A t \in Tasks :
             (LogsError(t) /\ LoggedOnly(t)) =>
                 /\ task'[t].pc = "done"
                 /\ task'[t].outcome \in {"CheckFailed", "Connected", "Confirmed"}
                 /\ \A s \in Slots : status'[s] = status[s] \/ status'[s].type = "success"
       /\ (init' # init /\ init'.pc # "fetchInfo") =>
             \A s \in Slots :
                 \/ status'[s] = status[s]
                 \/ /\ ~ethereum /\ s = "connectionStatus"
                    /\ status'[s].text = "Please install MetaMask or another Web3 wallet"
      ]_vars

\* a token lookup of updateTokenInfo has failed and the operation has gone on
C12_Witness ==
    \E t \in Tasks :
        task[t].pc = "done" /\ task[t].logged /\ task[t].outcome \in {"Connected", "Confirmed"}

\* ------------------------------------------------------------------------
\* C13
\* ------------------------------------------------------------------------
\* loadContractInfo returns in this step
LoadReturns == init.pc \in {"fetchInfo", "contractJson", "abiJson"} /\ init'.pc = "fetchSummary"

\* C13 (as claimed): a failure on the side of the contract address leaves
\* the ABI to be loaded (when /api/contract-abi has answered ok, its body
\* is read before loadContractInfo returns), and whenever loadContractInfo
\* returns the listeners are bound and checkWalletConnection has run.
C13_IndependentLoads ==
    [][/\ (LoadReturns /\ init.pc = "contractJson") => ~init.abiOk
       /\ LoadReturns =>
             /\ listeners'
             /\ \/ \E t \in Tasks : task'[t].kind = "check" /\ task'[t].pc = "eth_accounts"
                \/ ~ethereum /\ ~status'["connectionStatus"].hidden
      ]_vars

\* ------------------------------------------------------------------------
\* C14
\* ------------------------------------------------------------------------
\* a Mint or Transfer that has issued its submission call and not returned
InFlight(t) ==
    IsTx(t) /\ task[t].pc \in {"whitelistMint", "transfer", "wait", "balanceOf", "whitelist"}

\* the positions an operation can move to when the call it awaits settles
NextPc(pc) ==
    IF pc \in {"whitelistMint", "transfer"} THEN {"wait", "done"}
    ELSE IF pc = "wait" THEN {"balanceOf", "done"}
    ELSE IF pc = "balanceOf" THEN {"whitelist", "done"}
    ELSE {"done"}

\* the inputs of operation t pass its validation and parseEther
ValidInputs(r) ==
    /\ parseEther(r.amount).ok
    /\ IF r.kind = "mint" THEN ValidateMint(r.amount) = ""
       ELSE ValidateTransfer(r.to, r.amount) = ""

\* C14: a Mint or Transfer in flight moves only when the call it awaits
\* settles, in a step that changes no other operation, and keeps its
\* inputs and its one submission (nothing cancels or restarts it); and a
\* Mint or Transfer that is started with valid inputs on a bound contract
\* issues its submission call, whatever other operations are in flight.
C14_OperationsIndependent ==
    [][\/ task' = FreshTasks /\ ~listeners'
       \/ /\ \A t \in Tasks :
                (InFlight(t) /\ task'[t] # task[t]) =>
                    /\ task'[t].kind = task[t].kind
                    /\ task'[t].amount = task[t].amount /\ task'[t].to = task[t].to
                    /\ task'[t].submits = task[t].submits
                    /\ task'[t].pc \in NextPc(task[t].pc)
                    /\ \A u \in Tasks \ {t} : task'[u] = task[u]
          /\ \A t \in Tasks :
                (/\ task[t].pc \in {"idle", "done"} /\ task'[t] # task[t]
                 /\ task'[t].kind \in {"mint", "transfer"}
                 /\ contract # NULL /\ ValidInputs(task'[t])) =>
                    task'[t].submits = 1 /\ task'[t].pc \in {"whitelistMint", "transfer"}
      ]_vars

\* two operations await their confirmations at the same time
C14_Witness ==
    \E t, u \in Tasks :
        /\ t # u /\ IsTx(t) /\ IsTx(u)
        /\ task[t].pc = "wait" /\ task[u].pc = "wait"
        /\ task[t].hash # task[u].hash

\* ------------------------------------------------------------------------
\* C15
\* ------------------------------------------------------------------------
TransferForm(i) == <<i.transferTo, i.transferAmount>>

\* transfer t returns in this step with the given outcomes
TransferEnds(t, outcomes) ==
    /\ task'[t].kind = "transfer" /\ task'[t].pc = "done"
    /\ task'[t].outcome \in outcomes
    /\ task[t].pc # "done" \/ (clicks' = clicks + 1 /\ t = Slot)

\* C15: #transferTo and #transferAmount change only when the user fills
\* them in for a click, when the page reloads, or when a transfer returns
\* after its confirmation and the refresh that follows it, which empties
\* both; a transfer that ends in a validation error, a failed submission
\* or a failed confirmation leaves in them what the user had entered.
C15_FormClearedOnlyOnSuccess ==
    [][/\ TransferForm(inputs') # TransferForm(inputs) =>
             \/ inputs' = FreshInputs /\ ~listeners'
             \/ /\ clicks' = clicks + 1
                /\ task'[Slot].kind = "transfer"
                /\ TransferForm(inputs') = <<task'[Slot].to, task'[Slot].amount>>
             \/ \E t \in Tasks : /\ task[t].kind = "transfer" /\ task[t].hash > 0
                                 /\ task[t].pc \in {"balanceOf", "whitelist"}
                                 /\ TransferEnds(t, {"Confirmed"})
       /\ \A t \in Tasks :
             TransferEnds(t, {"Confirmed"}) => TransferForm(inputs') = << << >>, << >> >>
       /\ \A t \in Tasks :
             TransferEnds(t, {"ValidationError", "TransactionFailed"}) =>
                 IF clicks' = clicks + 1
                 THEN TransferForm(inputs') = <<task'[t].to, task'[t].amount>>
                 ELSE TransferForm(inputs') = TransferForm(inputs)
      ]_vars

\* a transfer has failed at its confirmation and the form still holds the
\* recipient and the amount
C15_Witness ==
    \E t \in Tasks :
        /\ ConfirmationFailed(t) /\ task[t].kind = "transfer"
        /\ TransferForm(inputs) = <<task[t].to, task[t].amount>>
        /\ inputs.transferTo # << >>

\* ------------------------------------------------------------------------
\* C16
\* ------------------------------------------------------------------------
\* the wallet signals accountsChanged or chainChanged in this step (the
\* approval of an eth_requestAccounts request, which also changes the
\* authorized accounts, is the step of the connectWallet that asked)
WalletSignal ==
    \/ chainId' # chainId
    \/ /\ accounts' # accounts
       /\ \A t \in Tasks : ~(task[t].pc = "eth_requestAccounts" /\ task'[t].pc = "getAddress")
    \/ reloaded' # reloaded

\* C16: a step in which the wallet signals a change of the accounts or of
\* the network leaves a freshly loaded page: the six session fields are
\* null, the log and its display are empty, no operation is in flight and
\* init() starts again, whatever was in flight before.
C16_SignalReloads ==
    [][WalletSignal =>
          /\ provider' = NULL /\ signer' = NULL /\ contract' = NULL
          /\ userAddress' = NULL /\ contractAddress' = NULL /\ contractABI' = NULL
          /\ txHistory' = << >> /\ txHistoryHTML' = << >>
          /\ task' = FreshTasks /\ init' = FreshInit /\ ~listeners'
          /\ buttons' = FreshButtons /\ status' = FreshStatus /\ timers' = FreshTimers
          /\ reloaded'
      ]_vars

\* the page as a wallet signal has left it
C16_Witness ==
    /\ reloaded /\ init = FreshInit /\ task = FreshTasks
    /\ provider = NULL /\ userAddress = NULL /\ txHistory = << >>

\* ------------------------------------------------------------------------
\* C17
\* ------------------------------------------------------------------------
\* the eth_accounts request of checkWalletConnection t settles in this step
AccountsReported(t) ==
    /\ task[t].kind = "check" /\ task[t].pc = "eth_accounts"
    /\ task'[t].kind = "check" /\ task'[t].pc # "eth_accounts"

\* C17: init() starts checkWalletConnection's account lookup only with a
\* wallet present; when the lookup settles, connectWallet(false) is entered
\* if and only if it has reported an authorized account, and otherwise the
\* operation ends with provider and signer untouched; an operation started
\* by init() never issues eth_requestAccounts.
C17_SilentReconnection ==
    [][/\ \A t \in Tasks :
             task'[t].kind = "check" =>
                 /\ ethereum
                 /\ ~task'[t].request
                 /\ task'[t].pc # "eth_requestAccounts"
       /\ LoadReturns => (ethereum <=> \E t \in Tasks : task'[t].kind = "check")
       /\ \A t \in Tasks :
             AccountsReported(t) =>
                 /\ task'[t].pc = "getAddress" <=> (accounts /\ task'[t].outcome # "CheckFailed")
                 /\ task'[t].pc = "getAddress" => provider' # NULL /\ signer' # NULL
                 /\ task'[t].pc # "getAddress" =>
                       /\ task'[t].pc = "done"
                       /\ task'[t].outcome \in {"NoAccounts", "CheckFailed"}
                       /\ provider' = provider /\ signer' = signer
      ]_vars

\* the silent reconnection has connected the wallet
C17_Witness ==
    \E t \in Tasks :
        task[t].kind = "check" /\ task[t].outcome = "Connected" /\ ~task[t].request /\ accounts

\* ------------------------------------------------------------------------
\* C18
\* ------------------------------------------------------------------------
\* contract.balanceOf of the updateTokenInfo of operation t settles
BalanceSettles(t) ==
    task[t].pc = "balanceOf" /\ task'[t].pc \in {"whitelist", "done"}

\* C18: when contract.balanceOf rejects, updateTokenInfo returns without
\* calling contract.whitelist and without writing #userBalance or
\* #whitelistStatus; the error is logged and no status slot changes, except
\* that a connectWallet goes on to report its success; when balanceOf
\* resolves, #userBalance is written and contract.whitelist is called.
C18_RefreshAbortsOnFirstFailure ==
    [][\A t \in Tasks :
          BalanceSettles(t) =>
              IF task'[t].pc = "whitelist"
              THEN /\ display'.userBalance = "shown"
                   /\ task'[t].calls = task[t].calls + 1
                   /\ status' = status
              ELSE /\ display' = display
                   /\ task'[t].calls = task[t].calls
                   /\ task'[t].logged
                   /\ task'[t].outcome \in {"Connected", "Confirmed"}
                   /\ IF IsTx(t) THEN status' = status
                      ELSE /\ status'["connectionStatus"] =
                                 Message("Wallet connected successfully!", NoArg, "success")
                           /\ status'["mintStatus"] = status["mintStatus"]
                           /\ status'["transferStatus"] = status["transferStatus"]
      ]_vars

\* the balanceOf of a mint's refresh has rejected: the mint has returned
\* after three calls (whitelistMint, wait, balanceOf)
C18_Witness ==
    \E t \in Tasks :
        /\ task[t].kind = "mint" /\ task[t].pc = "done" /\ task[t].outcome = "Confirmed"
        /\ task[t].logged /\ task[t].calls = 3

\* ------------------------------------------------------------------------
\* C19
\* ------------------------------------------------------------------------
\* C19: a bound contract comes with provider, signer and userAddress set,
\* with the contract address and the ABI loaded, and on network 41454 (the
\* network does not change within a page's lifetime: chainChanged reloads
\* the page); and an operation that has issued whitelistMint or transfer
\* has done so on a bound contract, hence on network 41454.
C19_ContractBoundAfterNetworkCheck ==
    /\ contract # NULL =>
          /\ provider # NULL /\ signer # NULL /\ userAddress # NULL
          /\ contractAddress # NULL /\ contractABI # NULL
          /\ chainId = EXPECTED_CHAIN_ID
    /\ \A t \in Tasks :
          (IsTx(t) /\ task[t].submits > 0) =>
              /\ contract # NULL
              /\ chainId = EXPECTED_CHAIN_ID
              /\ userAddress # NULL

\* a submission call has been issued
C19_Witness ==
    /\ contract # NULL
    /\ \E t \in Tasks : IsTx(t) /\ task[t].submits = 1 /\ task[t].hash > 0

\* ------------------------------------------------------------------------
\* C20
\* ------------------------------------------------------------------------
\* the hashes of the records of a log, from its head to its tail
HashesOf(history) == [i \in DOMAIN history |-> history[i].hash]

\* C20: every step leaves the log as it is or puts one record at its head,
\* the record of the submission whose hash is returned in that step; the
\* log therefore holds one record per returned hash, the most recently
\* returned hash first, and a confirmation (or its failure) changes nothing
\* in it.
C20_LogInSubmissionOrder ==
    [][/\ \/ txHistory' = txHistory /\ hashes' = hashes
          \/ /\ hashes' = hashes + 1
             /\ Len(txHistory') = Len(txHistory) + 1
             /\ txHistory'[1].hash = hashes'
             /\ SubSeq(txHistory', 2, Len(txHistory')) = txHistory
             /\ \E t \in Tasks : /\ task[t].pc \in {"whitelistMint", "transfer"}
                                 /\ task'[t].pc = "wait" /\ task'[t].hash = hashes'
          \/ txHistory' = << >> /\ task' = FreshTasks /\ ~listeners'
       /\ HashesOf(txHistory') = [i \in 1..hashes' |-> hashes' - i + 1]
       /\ \A t \in Tasks :
             (task[t].pc = "wait" /\ task'[t].pc # "wait") => txHistory' = txHistory
      ]_vars

\* the later of two submissions has been confirmed first, and the log still
\* holds the two records in the order of the submissions
C20_Witness ==
    \E t, u \in Tasks :
        /\ Confirmed(t) /\ IsTx(u) /\ task[u].pc = "wait"
        /\ task[u].hash > 0 /\ task[u].hash < task[t].hash
        /\ HashesOf(txHistory) = <<task[t].hash, task[u].hash>>

====
